---- MODULE Spec2Model ----
(***************************************************************************)
(* State-machine model of the two views of rshsl:                          *)
(*   get_location  (src/src/get_location.rs)  - the search view: a render/ *)
(*                  input loop plus the spawned locations_task;            *)
(*   get_itinerary (src/src/get_itinerary.rs) - the itinerary view: a      *)
(*                  render/input loop plus the spawned itineraries_task.   *)
(* The view function runs on the thread of block_on, the spawned task on a *)
(* worker of the multi-threaded runtime (#[tokio::main], main.rs:25), so   *)
(* the steps of the two interleave freely.  A task is cancelled by abort() *)
(* only where it is suspended (an await that returned Pending, or before   *)
(* its first poll); a poll that is under way runs on to its next pending   *)
(* await.  Sections guarded by one RwLock guard hold no await and are one  *)
(* step each.                                                              *)
(***************************************************************************)
EXTENDS Integers, Sequences, FiniteSets, TLC

\* ------------------------------------------------------------ constants
\* tokio::time::sleep(Duration::from_secs(1)) of the search task
Cooldown == 1
\* tokio::time::sleep(Duration::from_secs(60)) of the poll task
PollInterval == 60

\* ------------------------------------------------------------ bounds
\* longest text typed into the input buffer
MaxInput == 2
\* longest list a response carries
MaxResults == 3
\* last clock value (seconds) explored in the search view
MaxSearchTime == 1
\* last clock value (seconds) explored in the itinerary view
MaxPollTime == 120
\* edits of the input explored in one run of the search view
MaxEdits == 3

\* characters the keyboard delivers as KeyCode::Char in the search view
Chars == {"K"}

\* Option<usize>: None is the empty sequence, Some(i) the one-element one
None == <<>>
Some(i) == <<i>>

\* a list of n features (or itineraries); entry i carries the label 10*v + i
Items(v, n) == [i \in 1..n |-> 10 * v + i]
\* the lists a response may carry: one of every length, and a second,
\* different one of the greatest length
ResultLists == {Items(0, n) : n \in 0..MaxResults} \cup {Items(1, MaxResults)}

\* Result<LocationResponse> of get_locations: an error, or the decoded list
Err == [kind |-> "err", val |-> <<>>]
Ok(l) == [kind |-> "ok", val |-> l]
NoResult == [kind |-> "none", val |-> <<>>]
SearchResults == {Err} \cup {Ok(l) : l \in ResultLists}
\* outcomes of the poll request: send() fails, json() fails, a response
\* whose data or plan is null, a response with itineraries
PollResults == {[kind |-> "transport", val |-> <<>>],
                [kind |-> "decode", val |-> <<>>],
                [kind |-> "nodata", val |-> <<>>]}
               \cup {Ok(l) : l \in ResultLists}

VARIABLES
    view,             \* which view function runs: "search" | "itinerary"
    listClamps,       \* build: does List's render clamp an out-of-range selection
    now,              \* the clock, in seconds
    mainPc,           \* position of the view function
    key,              \* the key the loop has just handled ("none" once a frame is drawn)
    ret,              \* what the view function returned
    location,         \* label of the Feature returned by get_location (0: none)
    aborted,          \* JoinHandle::abort() has been called
    input,            \* Arc<RwLock<String>> input
    locations,        \* Arc<RwLock<LocationResponse>> locations (its features)
    locations_state,  \* ListState: the selected index
    itineraries,      \* Arc<RwLock<Vec<..>>> itineraries
    updating,         \* Arc<AtomicBool> updating
    shown,            \* the list the last frame drew
    statusShown,      \* the status the last frame drew ("Updating..." = TRUE)
    taskPc,           \* position of the spawned task
    query,            \* text of the request in flight
    result,           \* the resolved response being handled
    wakeAt,           \* deadline of the task's running sleep
    edits,            \* edits of the input made (each one calls notify_one)
    searches,         \* search requests sent
    unsearched,       \* the input was edited after the last request was sent
    held,             \* the lock guards the task holds at its position
    inflight,         \* requests sent and not yet resolved or dropped
    waiter,           \* Notify: the task's Notified future: none|waiting|notified
    permit,           \* Notify: a stored permit
    version,          \* history: number of writes to the store
    shownVer,         \* history: version the last frame's read saw
    replacedSinceNav, \* history: the store was replaced after the last Up/Down key
    lastEnd,          \* history: time the last cycle ended (-1: none)
    lastOk,           \* history: the list of the last successful response
    outcome           \* history: how the last finished cycle ended: none|ok|err

vars == <<view, listClamps, now, mainPc, key, ret, location, aborted, input,
          locations, locations_state, itineraries, updating, shown,
          statusShown, taskPc, query, result, wakeAt, edits, searches, unsearched, held, inflight, waiter, permit,
          version, shownVer, replacedSinceNav, lastEnd,
          lastOk, outcome>>

mainVars == <<mainPc, edits, key, ret, location, aborted, input, locations_state, shown,
              statusShown, shownVer>>
taskVars == <<taskPc, query, result, wakeAt, searches, held, inflight, locations, itineraries, updating,
              version, lastEnd, lastOk, outcome>>
notifyVars == <<waiter, permit>>
fixedVars == <<view, listClamps>>

\* the shared result store of the running view
Store == IF view = "search" THEN locations ELSE itineraries
MaxTime == IF view = "search" THEN MaxSearchTime ELSE MaxPollTime

Init ==
    /\ view \in {"search", "itinerary"}
    /\ listClamps \in BOOLEAN
    /\ (view = "itinerary" => listClamps = FALSE)
    /\ now = 0
    /\ mainPc = "draw"
    /\ key = "none"
    /\ ret = "none"
    /\ location = 0
    /\ aborted = FALSE
    /\ input = <<>>
    /\ locations = <<>>
    /\ locations_state = None
    /\ itineraries = <<>>
    /\ updating = FALSE
    /\ shown = <<>>
    /\ statusShown = FALSE
    /\ taskPc = "spawned"
    /\ query = <<>>
    /\ result = NoResult
    /\ wakeAt = 0
    /\ held = {}
    /\ inflight = 0
    /\ edits = 0
    /\ searches = 0
    /\ unsearched = FALSE
    /\ waiter = "none"
    /\ permit = FALSE
    /\ version = 0
    /\ shownVer = 0
    /\ replacedSinceNav = FALSE
    /\ lastEnd = -1
    /\ lastOk = <<>>
    /\ outcome = "none"

\* ------------------------------------------------------------ the clock
\* the search view is explored second by second, the itinerary view in
\* thirds of the poll interval
TickStep == IF view = "search" THEN 1 ELSE PollInterval \div 3

Tick ==
    /\ now < MaxTime
    /\ now' = now + TickStep
    /\ UNCHANGED <<fixedVars, mainVars, taskVars, notifyVars, replacedSinceNav>>
    /\ UNCHANGED unsearched

\* ------------------------------------------------------------ Notify
\* Notify::notify_one: a waiting Notified future is notified and leaves the
\* waiter list; with no waiting future a single permit is stored.
NotifyOneWaiter(w) == IF w = "waiting" THEN "notified" ELSE w

\* a notification that wakes a waiting future and is dropped otherwise
NotifyOnePermitDropped(w, p) == p

\* Notify::notify_one with no waiting future stores the permit
NotifyOnePermit(w, p) == IF w = "waiting" THEN p ELSE TRUE

\* ------------------------------------------------------------ search task
\* positions at which the task is suspended (or not polled yet)
Suspended == {"spawned", "notified", "fetching", "sleep"}

\* a task that cloned the input once, before its loop
DispatchQueryInitial(buf) == <<>>

\* get_location.rs:61  the request text is the input read after the wake-up
DispatchQuery(buf) == buf

\* a task that clears the list when a search fails
LocationsClearedOnError(res, old) == IF res.kind = "ok" THEN res.val ELSE <<>>

\* get_location.rs:63-67  only Ok(result) is written to locations
LocationsAfter(res, old) == IF res.kind = "ok" THEN res.val ELSE old

\* a task whose sleep sits inside the if-let and is skipped on failure
CycleSleepOkOnly(res) == IF res.kind = "ok" THEN Cooldown ELSE 0

\* get_location.rs:68  the sleep follows the if-let, whatever the result was
CycleSleep(res) == Cooldown

\* a task that keeps the input's read guard in a binding for the request
HeldAcrossRequest == {"input"}

\* get_location.rs:61  the read guard of `input.read().await.clone()` is a
\* temporary, dropped at the end of the statement, before the request
HeldAfterRead == {}

\* get_location.rs:65, get_itinerary.rs:115  the guard of write().await
HeldForWrite == {"store"}

\* a write guard bound outside the if-let block: it lives on through the
\* sleep and the next notified().await
HeldPastBlock == {"store"}

\* get_location.rs:67  the write guard is dropped where the if-let block
\* ends; get_itinerary.rs:115  it is a temporary of the assignment
HeldAfterWrite == {}

\* a loop that reaches the data without waiting for the lock
CanLockAlways(l) == TRUE

\* get_location.rs:78,118,134,158, get_itinerary.rs:126  the loop's
\* read().await on the store completes only while the task holds no write
\* guard of it; get_location.rs:108,113  its write().await on the input
\* completes only while the task holds no read guard of it
CanLock(l) == l \notin held

\* a sleep that is created and never awaited
SleepNotAwaited(t, deadline) == TRUE

\* get_location.rs:68, get_itinerary.rs:119  sleep(..).await completes at
\* its deadline
SleepOver(t, deadline) == t >= deadline

\* get_location.rs:66, get_itinerary.rs:115  the assignment under way: the
\* new value is moved into the place piece by piece
HalfWritten(old, new) ==
    [i \in 1..Len(new) |-> IF i = 1 THEN new[1]
                           ELSE IF i <= Len(old) THEN old[i] ELSE 0]

\* get_location.rs:61-62  read the input and send the request
Dispatch ==
    /\ query' = DispatchQuery(input)
    /\ held' = HeldAfterRead
    /\ inflight' = inflight + 1
    /\ searches' = searches + 1
    /\ unsearched' = (query' # input)
    /\ taskPc' = "fetching"

\* a wake-up that leaves the stored permit in place
PermitKept(p) == p

\* get_location.rs:60  a Notified future that completes on the stored permit
\* takes the permit
PermitAfterWake(p) == FALSE

\* get_location.rs:60  first poll of input_notify.notified(): a stored permit
\* is consumed and the loop body runs on; otherwise the future is enqueued
AwaitNotified ==
    IF permit
    THEN /\ permit' = PermitAfterWake(permit)
         /\ waiter' = "none"
         /\ Dispatch
    ELSE /\ permit' = FALSE
         /\ waiter' = "waiting"
         /\ taskPc' = "notified"
         /\ UNCHANGED <<query, held, inflight, searches, unsearched>>

\* get_location.rs:57-60  first poll of the spawned task
LocationsTaskStart ==
    /\ view = "search"
    /\ taskPc = "spawned"
    /\ ~aborted
    /\ AwaitNotified
    /\ UNCHANGED <<result, wakeAt, locations, itineraries, updating, version,
                   lastEnd, lastOk, outcome>>
    /\ UNCHANGED <<fixedVars, now, mainVars, replacedSinceNav>>

\* get_location.rs:60-62  the notified future completes
LocationsTaskWake ==
    /\ view = "search"
    /\ taskPc = "notified"
    /\ waiter = "notified"
    /\ ~aborted
    /\ waiter' = "none"
    /\ permit' = permit
    /\ Dispatch
    /\ UNCHANGED <<result, wakeAt, locations, itineraries, updating, version,
                   lastEnd, lastOk, outcome>>
    /\ UNCHANGED <<fixedVars, now, mainVars, replacedSinceNav>>

\* get_location.rs:62  the request resolves: the task is polled with the result
LocationsTaskResolve ==
    /\ view = "search"
    /\ taskPc = "fetching"
    /\ ~aborted
    /\ \E r \in SearchResults : result' = r
    /\ taskPc' = "resolved"
    /\ inflight' = inflight - 1
    /\ UNCHANGED held
    /\ UNCHANGED <<query, wakeAt, locations, itineraries, updating, version,
                   lastEnd, lastOk, outcome>>
    /\ UNCHANGED <<fixedVars, now, mainVars, notifyVars, replacedSinceNav>>
    /\ UNCHANGED <<searches, unsearched>>

\* get_location.rs:63-68  the same poll goes on.  Err: straight to the sleep
LocationsTaskStore ==
    /\ view = "search"
    /\ taskPc = "resolved"
    /\ result.kind # "ok"
    /\ locations' = LocationsAfter(result, locations)
    /\ outcome' = result.kind
    /\ wakeAt' = now + CycleSleep(result)
    /\ lastEnd' = now
    /\ result' = NoResult
    /\ query' = <<>>
    /\ taskPc' = "sleep"
    /\ UNCHANGED <<itineraries, updating, version, lastOk, held, inflight,
                   replacedSinceNav>>
    /\ UNCHANGED <<fixedVars, now, mainVars, notifyVars>>
    /\ UNCHANGED <<searches, unsearched>>

\* get_location.rs:65-66  Ok: the write guard is taken and the assignment
\* begins (the loop holds its read guards only within one of its steps)
LocationsTaskWrite ==
    /\ view = "search"
    /\ taskPc = "resolved"
    /\ result.kind = "ok"
    /\ held' = HeldForWrite
    /\ locations' = HalfWritten(locations, result.val)
    /\ taskPc' = "writing"
    /\ UNCHANGED <<query, result, wakeAt, inflight, itineraries, updating,
                   version, lastEnd, lastOk, outcome, replacedSinceNav>>
    /\ UNCHANGED <<fixedVars, now, mainVars, notifyVars>>
    /\ UNCHANGED <<searches, unsearched>>

\* get_location.rs:66-68  the assignment is complete, the guard is dropped
\* at the end of the if-let block, the sleep starts
LocationsTaskWritten ==
    /\ view = "search"
    /\ taskPc = "writing"
    /\ locations' = LocationsAfter(result, locations)
    /\ held' = HeldAfterWrite
    /\ version' = version + 1
    /\ outcome' = result.kind
    /\ wakeAt' = now + CycleSleep(result)
    /\ lastEnd' = now
    /\ result' = NoResult
    /\ query' = <<>>
    /\ taskPc' = "sleep"
    /\ lastOk' = result.val
    /\ replacedSinceNav' = TRUE
    /\ UNCHANGED <<itineraries, updating, inflight>>
    /\ UNCHANGED <<fixedVars, now, mainVars, notifyVars>>
    /\ UNCHANGED <<searches, unsearched>>

\* get_location.rs:68-69,60  the sleep is over: back to notified()
LocationsTaskSleepDone ==
    /\ view = "search"
    /\ taskPc = "sleep"
    /\ SleepOver(now, wakeAt)
    /\ ~aborted
    /\ AwaitNotified
    /\ wakeAt' = 0
    /\ UNCHANGED <<result, locations, itineraries, updating, version,
                   lastEnd, lastOk, outcome>>
    /\ UNCHANGED <<fixedVars, now, mainVars, replacedSinceNav>>

\* JoinHandle::abort() takes effect: the runtime drops a suspended task
\* instead of polling it.  Dropping a Notified future that was notified but
\* never polled hands its notification back to the Notify.
TaskCancel ==
    /\ aborted
    /\ taskPc \in Suspended
    /\ taskPc' = "cancelled"
    /\ permit' = (permit \/ waiter = "notified")
    /\ waiter' = "none"
    /\ wakeAt' = 0
    /\ query' = <<>>
    /\ held' = {}
    /\ inflight' = 0
    /\ UNCHANGED <<result, locations, itineraries, updating, version,
                   lastEnd, lastOk, outcome>>
    /\ UNCHANGED <<fixedVars, now, mainVars, replacedSinceNav>>
    /\ UNCHANGED <<searches, unsearched>>

\* ------------------------------------------------------------ poll task
\* get_itinerary.rs:111,113,115  what the task does with a resolved request:
\* `?` returns the error from the task, unwrap() of a missing data/plan
\* panics (the value is unwrapped before the lock is taken), a plan is
\* written by the same poll
PollNext(kind) ==
    IF kind = "ok" THEN "resolved"
    ELSE IF kind = "nodata" THEN "panicked" ELSE "failed"

\* get_itinerary.rs:102-110  top of the loop: set the flag, send the request
ItinerariesTaskStart ==
    /\ view = "itinerary"
    /\ \/ taskPc = "spawned"
       \/ taskPc = "sleep" /\ SleepOver(now, wakeAt)
    /\ ~aborted
    /\ updating' = TRUE
    /\ taskPc' = "fetching"
    /\ wakeAt' = 0
    /\ lastEnd' = -1
    /\ inflight' = inflight + 1
    /\ UNCHANGED <<query, result, locations, itineraries, version, held,
                   lastOk, outcome>>
    /\ UNCHANGED <<fixedVars, now, mainVars, notifyVars, replacedSinceNav>>
    /\ UNCHANGED <<searches, unsearched>>

\* get_itinerary.rs:106-115  the request resolves
ItinerariesTaskResolve ==
    /\ view = "itinerary"
    /\ taskPc = "fetching"
    /\ ~aborted
    /\ \E r \in PollResults :
         /\ taskPc' = PollNext(r.kind)
         /\ result' = IF r.kind = "ok" THEN r ELSE NoResult
         /\ outcome' = IF r.kind = "ok" THEN outcome ELSE "err"
    /\ inflight' = inflight - 1
    /\ UNCHANGED <<query, wakeAt, locations, itineraries, updating, version,
                   lastEnd, lastOk, held>>
    /\ UNCHANGED <<fixedVars, now, mainVars, notifyVars, replacedSinceNav>>
    /\ UNCHANGED <<searches, unsearched>>

\* get_itinerary.rs:115  the write guard is taken and the assignment begins
ItinerariesTaskStore ==
    /\ view = "itinerary"
    /\ taskPc = "resolved"
    /\ held' = HeldForWrite
    /\ itineraries' = HalfWritten(itineraries, result.val)
    /\ taskPc' = "writing"
    /\ UNCHANGED <<query, result, wakeAt, inflight, locations, updating,
                   version, lastEnd, lastOk, outcome>>
    /\ UNCHANGED <<fixedVars, now, mainVars, notifyVars, replacedSinceNav>>
    /\ UNCHANGED <<searches, unsearched>>

\* a loop that sleeps no time between two polls
PollWakeAtOnce(t) == t

\* get_itinerary.rs:119  sleep(Duration::from_secs(60))
PollWake(t) == t + PollInterval

\* get_itinerary.rs:115-119  the assignment is complete and the guard
\* dropped at the end of the statement; clear the flag, start the sleep
ItinerariesTaskWritten ==
    /\ view = "itinerary"
    /\ taskPc = "writing"
    /\ itineraries' = result.val
    /\ held' = HeldAfterWrite
    /\ version' = version + 1
    /\ updating' = FALSE
    /\ outcome' = "ok"
    /\ lastOk' = result.val
    /\ wakeAt' = PollWake(now)
    /\ lastEnd' = now
    /\ result' = NoResult
    /\ taskPc' = "sleep"
    /\ UNCHANGED <<query, locations, inflight>>
    /\ UNCHANGED <<fixedVars, now, mainVars, notifyVars, replacedSinceNav>>
    /\ UNCHANGED <<searches, unsearched>>

\* ------------------------------------------------------------ render/input loop
\* get_location.rs:99  List's render is handed &mut locations_state: it leaves
\* the selection alone, or (newer ratatui) clamps it to the drawn list
ListRender(sel, n) ==
    IF ~listClamps THEN sel
    ELSE IF n = 0 THEN None
    ELSE IF sel # None /\ sel[1] >= n THEN Some(n - 1) ELSE sel

\* a Down arm that wraps one entry too late
SelectDownLate(sel, n) ==
    IF n = 0 THEN sel
    ELSE IF sel = None THEN Some(0)
    ELSE IF sel[1] >= n THEN Some(0) ELSE Some(sel[1] + 1)

\* get_location.rs:117-132  KeyCode::Up
SelectUp(sel, n) ==
    IF n = 0 THEN sel
    ELSE IF sel = None THEN Some(0)
    ELSE IF sel[1] = 0 THEN Some(n - 1) ELSE Some(sel[1] - 1)

\* get_location.rs:133-148  KeyCode::Down
SelectDown(sel, n) ==
    IF n = 0 THEN sel
    ELSE IF sel = None THEN Some(0)
    ELSE IF sel[1] >= n - 1 THEN Some(0) ELSE Some(sel[1] + 1)

\* a match whose every arm breaks out of the loop
AfterKeyAlwaysBreak(k) == "abort"

\* get_location.rs:105-150, get_itinerary.rs:266-270  the match on key.code:
\* Enter (search view) and q / Esc (itinerary view) break, every other arm
\* falls through to the next frame
AfterKey(k) == IF k \in {"enter", "quit"} THEN "abort" ELSE "draw"

\* a result that unwraps the selection
ReturnOfUnwrap(sel, feats) ==
    IF sel = None THEN "panic"
    ELSE IF sel[1] < Len(feats) THEN "ok" ELSE "panic"

\* a frame that keeps drawing the snapshot it took first
StoreReadStale == shown

\* get_location.rs:77-78, get_itinerary.rs:126  the value a frame reads
StoreRead == Store

\* get_location.rs:76-101, get_itinerary.rs:125-262  read the store, draw
Draw ==
    /\ mainPc = "draw"
    /\ CanLock("store")
    /\ shown' = StoreRead
    /\ shownVer' = version
    /\ statusShown' = IF view = "itinerary" THEN updating ELSE statusShown
    /\ locations_state' = IF view = "search"
                          THEN ListRender(locations_state, Len(locations))
                          ELSE locations_state
    /\ mainPc' = "poll"
    /\ key' = "none"
    /\ UNCHANGED <<ret, location, aborted, input, replacedSinceNav>>
    /\ UNCHANGED <<fixedVars, now, taskVars, notifyVars>>
    /\ UNCHANGED <<edits, unsearched>>

\* get_location.rs:100,103,104, get_itinerary.rs:261,264,265  `?` on
\* terminal.draw, event::poll or event::read returns the error at once
IoError ==
    /\ mainPc \in {"draw", "poll"}
    /\ mainPc' = "returned"
    /\ key' = "none"
    /\ ret' = "io_error"
    /\ UNCHANGED <<location, aborted, input, locations_state, shown,
                   statusShown, shownVer, replacedSinceNav>>
    /\ UNCHANGED <<fixedVars, now, taskVars, notifyVars>>
    /\ UNCHANGED <<edits, unsearched>>

\* get_location.rs:103-104, get_itinerary.rs:264-265  no event in 16 ms, or
\* an event that is no key
NoEvent ==
    /\ mainPc = "poll"
    /\ mainPc' = "draw"
    /\ key' = "none"
    /\ UNCHANGED <<ret, location, aborted, input, locations_state, shown,
                   statusShown, shownVer, replacedSinceNav>>
    /\ UNCHANGED <<fixedVars, now, taskVars, notifyVars>>
    /\ UNCHANGED <<edits, unsearched>>

\* get_location.rs:149, get_itinerary.rs:269  `_ => ()`
KeyOther ==
    /\ mainPc = "poll"
    /\ key' = "other"
    /\ mainPc' = AfterKey("other")
    /\ UNCHANGED <<ret, location, aborted, input, locations_state, shown,
                   statusShown, shownVer, replacedSinceNav>>
    /\ UNCHANGED <<fixedVars, now, taskVars, notifyVars>>
    /\ UNCHANGED <<edits, unsearched>>

\* get_location.rs:106  KeyCode::Enter => break
KeyEnter ==
    /\ view = "search"
    /\ mainPc = "poll"
    /\ key' = "enter"
    /\ mainPc' = AfterKey("enter")
    /\ UNCHANGED <<ret, location, aborted, input, locations_state, shown,
                   statusShown, shownVer, replacedSinceNav>>
    /\ UNCHANGED <<fixedVars, now, taskVars, notifyVars>>
    /\ UNCHANGED <<edits, unsearched>>

\* get_itinerary.rs:267-268  KeyCode::Char('q') | KeyCode::Esc => break
KeyQuit ==
    /\ view = "itinerary"
    /\ mainPc = "poll"
    /\ key' = "quit"
    /\ mainPc' = AfterKey("quit")
    /\ UNCHANGED <<ret, location, aborted, input, locations_state, shown,
                   statusShown, shownVer, replacedSinceNav>>
    /\ UNCHANGED <<fixedVars, now, taskVars, notifyVars>>
    /\ UNCHANGED <<edits, unsearched>>

\* get_location.rs:107-111  KeyCode::Char(c): push and notify
KeyChar(c) ==
    /\ view = "search"
    /\ mainPc = "poll"
    /\ CanLock("input")
    /\ edits < MaxEdits
    /\ edits' = edits + 1
    /\ unsearched' = TRUE
    /\ Len(input) < MaxInput
    /\ input' = Append(input, c)
    /\ waiter' = NotifyOneWaiter(waiter)
    /\ permit' = NotifyOnePermit(waiter, permit)
    /\ key' = "char"
    /\ mainPc' = AfterKey("char")
    /\ UNCHANGED <<ret, location, aborted, locations_state, shown,
                   statusShown, shownVer, replacedSinceNav>>
    /\ UNCHANGED <<fixedVars, now, taskVars>>

\* get_location.rs:112-116  KeyCode::Backspace: pop and notify
KeyBackspace ==
    /\ view = "search"
    /\ mainPc = "poll"
    /\ CanLock("input")
    /\ edits < MaxEdits
    /\ edits' = edits + 1
    /\ unsearched' = TRUE
    /\ input' = IF input = <<>> THEN input
                ELSE SubSeq(input, 1, Len(input) - 1)
    /\ waiter' = NotifyOneWaiter(waiter)
    /\ permit' = NotifyOnePermit(waiter, permit)
    /\ key' = "backspace"
    /\ mainPc' = AfterKey("backspace")
    /\ UNCHANGED <<ret, location, aborted, locations_state, shown,
                   statusShown, shownVer, replacedSinceNav>>
    /\ UNCHANGED <<fixedVars, now, taskVars>>

\* get_location.rs:117-132
KeyUp ==
    /\ view = "search"
    /\ mainPc = "poll"
    /\ CanLock("store")
    /\ locations_state' = SelectUp(locations_state, Len(locations))
    /\ replacedSinceNav' = FALSE
    /\ key' = "up"
    /\ mainPc' = AfterKey("up")
    /\ UNCHANGED <<ret, location, aborted, input, shown, statusShown, shownVer>>
    /\ UNCHANGED <<fixedVars, now, taskVars, notifyVars>>
    /\ UNCHANGED <<edits, unsearched>>

\* get_location.rs:133-148
KeyDown ==
    /\ view = "search"
    /\ mainPc = "poll"
    /\ CanLock("store")
    /\ locations_state' = SelectDown(locations_state, Len(locations))
    /\ replacedSinceNav' = FALSE
    /\ key' = "down"
    /\ mainPc' = AfterKey("down")
    /\ UNCHANGED <<ret, location, aborted, input, shown, statusShown, shownVer>>
    /\ UNCHANGED <<fixedVars, now, taskVars, notifyVars>>
    /\ UNCHANGED <<edits, unsearched>>

\* get_location.rs:155, get_itinerary.rs:275  <task>.abort()
Abort ==
    /\ mainPc = "abort"
    /\ aborted' = TRUE
    /\ mainPc' = "final"
    /\ key' = "none"
    /\ UNCHANGED <<ret, location, input, locations_state, shown, statusShown,
                   shownVer, replacedSinceNav>>
    /\ UNCHANGED <<fixedVars, now, taskVars, notifyVars>>
    /\ UNCHANGED <<edits, unsearched>>

\* get_location.rs:157-162  the value get_location returns
ReturnOf(sel, feats) ==
    IF sel = None THEN "no_selection"
    ELSE IF sel[1] < Len(feats) THEN "ok" ELSE "panic"

\* get_location.rs:157-162, get_itinerary.rs:277
Return ==
    /\ mainPc = "final"
    /\ view = "search" /\ locations_state # None => CanLock("store")
    /\ mainPc' = "returned"
    /\ key' = "none"
    /\ ret' = IF view = "search" THEN ReturnOf(locations_state, locations)
              ELSE "ok"
    /\ location' = IF view = "search"
                      /\ ReturnOf(locations_state, locations) = "ok"
                   THEN locations[locations_state[1] + 1] ELSE location
    /\ UNCHANGED <<aborted, input, locations_state, shown, statusShown,
                   shownVer, replacedSinceNav>>
    /\ UNCHANGED <<fixedVars, now, taskVars, notifyVars>>
    /\ UNCHANGED <<edits, unsearched>>

\* ------------------------------------------------------------ specification
Next ==
    \/ Tick
    \/ LocationsTaskStart
    \/ LocationsTaskWake
    \/ LocationsTaskResolve
    \/ LocationsTaskStore
    \/ LocationsTaskWrite
    \/ LocationsTaskWritten
    \/ LocationsTaskSleepDone
    \/ ItinerariesTaskStart
    \/ ItinerariesTaskResolve
    \/ ItinerariesTaskStore
    \/ ItinerariesTaskWritten
    \/ TaskCancel
    \/ Draw
    \/ IoError
    \/ NoEvent
    \/ KeyOther
    \/ KeyEnter
    \/ KeyQuit
    \/ \E c \in Chars : KeyChar(c)
    \/ KeyBackspace
    \/ KeyUp
    \/ KeyDown
    \/ Abort
    \/ Return

Spec == Init /\ [][Next]_vars

\* ------------------------------------------------------------ the open search view
\* get_location.rs:68  time goes on past MaxTime: instead of moving now
\* forward, the instants recorded for the running sleep are moved back
ClockShift ==
    /\ view = "search"
    /\ now = MaxTime
    /\ taskPc = "sleep"
    /\ wakeAt > now
    /\ wakeAt' = wakeAt - TickStep
    /\ lastEnd' = lastEnd - TickStep
    /\ UNCHANGED <<query, result, held, inflight, searches, locations,
                   itineraries, updating, version, lastOk, outcome, taskPc>>
    /\ UNCHANGED <<fixedVars, now, mainVars, notifyVars, replacedSinceNav,
                   unsearched>>

\* get_location.rs:45-153  the search view while it stays open: the loop
\* does not leave through Enter or an I/O error, so abort() is not called
OpenInit == Init /\ view = "search"

OpenNext ==
    \/ Tick
    \/ ClockShift
    \/ LocationsTaskStart
    \/ LocationsTaskWake
    \/ LocationsTaskResolve
    \/ LocationsTaskStore
    \/ LocationsTaskWrite
    \/ LocationsTaskWritten
    \/ LocationsTaskSleepDone
    \/ Draw
    \/ NoEvent
    \/ KeyOther
    \/ \E c \in Chars : KeyChar(c)
    \/ KeyBackspace
    \/ KeyUp
    \/ KeyDown

\* main.rs:25  the runtime polls a spawned task whenever it is woken; time
\* passes; every request resolves
TaskFairness ==
    /\ WF_vars(Tick) /\ WF_vars(ClockShift)
    /\ WF_vars(LocationsTaskStart) /\ WF_vars(LocationsTaskWake)
    /\ WF_vars(LocationsTaskResolve) /\ WF_vars(LocationsTaskStore)
    /\ WF_vars(LocationsTaskWrite) /\ WF_vars(LocationsTaskWritten)
    /\ WF_vars(LocationsTaskSleepDone)

OpenSpec == OpenInit /\ [][OpenNext]_vars /\ TaskFairness

\* main.rs:25  a task that is being polled runs on: from a resolved request
\* to the write, and from the write to the dropped guard, it awaits nothing
\* that the loop holds (the loop keeps its own guards within one step:
\* get_location.rs:76-101,108-110,113-115,118,134,158, get_itinerary.rs:125-262)
GuardFairness ==
    /\ WF_vars(LocationsTaskStore) /\ WF_vars(LocationsTaskWrite)
    /\ WF_vars(LocationsTaskWritten)
    /\ WF_vars(ItinerariesTaskStore) /\ WF_vars(ItinerariesTaskWritten)

FairSpec == Init /\ [][Next]_vars /\ GuardFairness

\* ------------------------------------------------------------ properties
\* the task has ended: its future returned, panicked, or was dropped
TaskTerminated == taskPc \in {"failed", "panicked", "cancelled"}
\* the step that issues a search request
SearchDispatched == view = "search" /\ taskPc # "fetching" /\ taskPc' = "fetching"
\* the step in which a frame reads the store
FrameRead == mainPc = "draw" /\ mainPc' = "poll"
\* the step in which the task is done with a failed request
FailedCycleEnds ==
    \/ view = "search" /\ taskPc = "resolved" /\ result.kind = "err"
                       /\ taskPc' = "sleep"
    \/ view = "itinerary" /\ taskPc = "fetching"
                          /\ taskPc' \in {"failed", "panicked"}

\* C1: in the itinerary view a failed fetch cycle never terminates the poll
\* task: the task ends only by being cancelled from outside.
C1_PollTaskSurvivesFailure ==
    (view = "itinerary" /\ TaskTerminated) => (aborted /\ taskPc = "cancelled")

\* C2: in the itinerary view the updating flag is set while a request is in
\* flight and is clear in every state where the task sleeps or has stopped.
C2_StatusIdleUnlessFetching ==
    view = "itinerary" =>
        /\ (taskPc = "fetching" => updating)
        /\ (taskPc \in {"sleep", "failed", "panicked", "cancelled"} => ~updating)

\* C3: in the search view, once the task has replaced the list, the next
\* frame drawn has no selected index until Up or Down is pressed again.
C3_SelectionResetOnReplace ==
    (view = "search" /\ mainPc = "poll" /\ replacedSinceNav /\ shownVer = version)
        => locations_state = None

\* C4: once abort() has been called the store is never written again.
C4_NoWriteAfterAbort ==
    [][aborted => (version' = version /\ Store' = Store)]_vars

\* C5: whenever a view function has returned, on whatever path, its task
\* has been asked to cancel before.
C5_CancelledBeforeReturn ==
    mainPc = "returned" => aborted

\* C6: a search request is issued no sooner than the cooldown after the end
\* of the previous cycle, whether that cycle succeeded or failed.
C6_CooldownBeforeNextSearch ==
    [][(SearchDispatched /\ lastEnd >= 0) => now >= lastEnd + Cooldown]_vars

\* C6 witness: a request in flight that was issued after a failed cycle
C6_Witness ==
    /\ view = "search"
    /\ taskPc = "fetching"
    /\ outcome = "err"
    /\ now >= lastEnd + Cooldown

\* C7: the text of every search request is the input buffer's value at the
\* moment the request is issued.
C7_QueryIsCurrentInput ==
    [][SearchDispatched => (query' = input /\ input' = input)]_vars

\* C7 witness: the first request of the view carries a text of two
\* characters: the edit that signalled was overwritten before the request
C7_Witness ==
    /\ view = "search"
    /\ taskPc = "fetching"
    /\ outcome = "none"
    /\ query = <<"K", "K">>

\* C8: edits made before the task consumes the signal leave one wake-up
\* pending, never two: a notified waiter and a stored permit do not coexist.
C8_SingleWakeupPending ==
    ~(waiter = "notified" /\ permit)

\* C9: a frame's read returns the store's current value, the last one
\* written, and a version no smaller than any read before it, strictly
\* greater when a write completed in between.
C9_ReadSeesLastWrite ==
    [][FrameRead => /\ shown' = Store
                    /\ Store = lastOk
                    /\ shownVer' = version
                    /\ shownVer' >= shownVer
                    /\ (version > shownVer => shownVer' > shownVer)]_vars

\* C9 witness: a frame has read the second of two writes
C9_Witness ==
    /\ mainPc = "poll"
    /\ version >= 2
    /\ shownVer = version
    /\ shown = Store
    /\ shown # <<>>

\* C10: the step that ends a failed cycle leaves the store, its version and
\* everything the render loop holds (the drawn list, the selection, the
\* return value) as they were.
C10_FailureKeepsStore ==
    [][FailedCycleEnds => /\ Store' = Store
                          /\ version' = version
                          /\ UNCHANGED mainVars]_vars

\* C10 witness: a failed search cycle is over and the earlier results are
\* still stored and drawn
C10_Witness ==
    /\ view = "search"
    /\ taskPc = "sleep"
    /\ outcome = "err"
    /\ locations # <<>>
    /\ shown = locations

\* C11: in the search view, Enter pressed while the selection is None ends the
\* view with the "Missing location selection" error as the returned value: it
\* is not a panic and not an Ok with some default location, and abort() has
\* been called on the task on that path too.
C11_EnterWithoutSelection ==
    /\ (view = "search" /\ mainPc = "returned" /\ ret # "io_error"
            /\ locations_state = None)
         => (ret = "no_selection" /\ aborted /\ location = 0)
    /\ ret = "no_selection" => (view = "search" /\ locations_state = None)

C11_Witness ==
    /\ view = "search" /\ mainPc = "returned" /\ ret = "no_selection"
    /\ aborted /\ locations_state = None /\ Len(locations) > 0

\* the selection indexes an entry of the list the handler reads
InRange(sel, n) == sel # None /\ sel[1] < n

\* C12: over the list of n results the handler reads, Down moves Some(n-1) to
\* Some(0) and any other Some(i) to Some(i+1); Up moves Some(0) to Some(n-1)
\* and any other Some(i) to Some(i-1); with an empty list neither key changes
\* the selection.
C12_UpDownWrapAround ==
    [][(view = "search" /\ mainPc = "poll" /\ key' \in {"up", "down"}) =>
        LET n == Len(locations)
            sel == locations_state
        IN  /\ n = 0 => locations_state' = sel
            /\ (InRange(sel, n) /\ key' = "down") =>
                   locations_state' =
                       IF sel[1] = n - 1 THEN Some(0) ELSE Some(sel[1] + 1)
            /\ (InRange(sel, n) /\ key' = "up") =>
                   locations_state' =
                       IF sel[1] = 0 THEN Some(n - 1) ELSE Some(sel[1] - 1)]_vars

\* Up has just wrapped from the first entry to the last of MaxResults results
C12_Witness ==
    /\ view = "search" /\ key = "up" /\ mainPc = "draw"
    /\ Len(locations) = MaxResults /\ ~replacedSinceNav
    /\ locations_state = Some(MaxResults - 1)

\* C15: in the itinerary view q or Esc leaves the loop; any other key changes
\* neither the itineraries, nor the updating flag, nor the task, and the loop
\* goes on to draw the next frame.
C15_OtherKeysIgnored ==
    [][(view = "itinerary" /\ mainPc = "poll" /\ key' \in {"other", "quit"}) =>
        IF key' = "quit"
        THEN mainPc' = "abort"
        ELSE /\ mainPc' = "draw"
             /\ UNCHANGED <<taskVars, notifyVars, aborted, ret>>]_vars

C15_Witness ==
    /\ view = "itinerary" /\ key = "other" /\ mainPc = "draw"
    /\ taskPc = "fetching" /\ updating /\ ~aborted

\* the step that sends a request, in either view
RequestIssued == taskPc # "fetching" /\ taskPc' = "fetching"

\* C13: the poll task's first step sends a request (no sleep before it); every
\* later request is sent only when the cycle before it has ended and
\* PollInterval has passed since; a resolved plan is written in exactly one
\* replacement of the itineraries, and nothing else replaces them.
C13_PollCycleTiming ==
    [][view = "itinerary" =>
        /\ (taskPc = "spawned" /\ taskPc' # taskPc) =>
               taskPc' \in {"fetching", "cancelled"}
        /\ RequestIssued =>
               \/ taskPc = "spawned"
               \/ taskPc = "sleep" /\ lastEnd >= 0
                                   /\ now >= lastEnd + PollInterval
        /\ (taskPc = "resolved" /\ taskPc' # taskPc) => taskPc' = "writing"
        /\ (taskPc = "writing" /\ taskPc' # taskPc) =>
               /\ taskPc' = "sleep"
               /\ version' = version + 1
               /\ itineraries' = result.val
        /\ version' # version => taskPc = "writing"]_vars

\* the third poll is sent at two poll intervals, after two written plans
C13_Witness ==
    /\ view = "itinerary" /\ taskPc = "fetching"
    /\ version = 2 /\ now = 2 * PollInterval

\* C14: a frame never draws, and the view never returns, a half-written list:
\* what the loop reads is a whole list, the one of the last completed write;
\* and a write that has begun is completed, abort() does not end the task in
\* the middle of it.
C14_NoTornRead ==
    [][/\ FrameRead => (shown' \in ResultLists /\ shown' = lastOk)
       /\ (view = "search" /\ mainPc = "final" /\ ret' = "ok") =>
              \E i \in 1..Len(lastOk) : location' = lastOk[i]
       /\ (taskPc = "writing" /\ taskPc' # taskPc) =>
              (taskPc' = "sleep" /\ Store' = result.val)]_vars

\* abort() has been called while the list is half written and the view is
\* about to read the selected entry
C14_Witness ==
    /\ view = "search" /\ taskPc = "writing" /\ Store \notin ResultLists
    /\ aborted /\ mainPc = "final" /\ locations_state # None

\* C16: while a request is in flight and while the task sleeps (and while it
\* waits for a notification) it holds no guard, neither of the store nor of
\* the input, so the loop's reads and writes are not kept waiting.
C16_NoGuardAcrossAwait ==
    (inflight > 0 \/ taskPc \in Suspended) => held = {}

\* the input has been edited and a frame drawn while the request is in flight
C16_Witness ==
    /\ view = "search" /\ taskPc = "fetching" /\ inflight = 1
    /\ query # input /\ mainPc = "poll" /\ shownVer = version /\ version > 0

\* C17: at most one request is ever in flight; a request is sent only when
\* none is in flight and the response before it has been dealt with, and in
\* the search view only when the sleep after the previous search is over.
C17_OneRequestInFlight ==
    [][/\ inflight' <= 1
       /\ RequestIssued =>
              /\ inflight = 0 /\ inflight' = 1
              /\ result = NoResult
              /\ taskPc \in {"spawned", "notified", "sleep"}
              /\ (view = "search" /\ lastEnd >= 0) =>
                     now >= lastEnd + Cooldown]_vars

\* a second search is in flight after the first was resolved and slept on
C17_Witness ==
    /\ view = "search" /\ taskPc = "fetching" /\ inflight = 1
    /\ lastEnd >= 0 /\ now >= lastEnd + Cooldown /\ ~aborted

\* C18: in the search view every search request uses up one wake-up (the
\* notification handed to the waiting task, or the stored permit) and is the
\* only step that counts as a search; so no search is sent before the first
\* edit, and the searches sent never outnumber the edits made.
C18_SearchPerWakeUp ==
    [][view = "search" =>
        /\ searches' <= edits'
        /\ edits' = 0 => searches' = 0
        /\ searches' # searches => SearchDispatched
        /\ SearchDispatched =>
               /\ searches' = searches + 1
               /\ \/ waiter = "notified" /\ waiter' = "none" /\ permit' = permit
                  \/ permit /\ ~permit' /\ waiter' = "none"]_vars

\* the second of two edits has been answered by the second search
C18_Witness ==
    /\ view = "search" /\ taskPc = "fetching"
    /\ searches = 2 /\ edits = 2 /\ ~unsearched

\* C19: in the search view a selection Some(i) always indexes the current
\* list of results (i < its length), also after the task has replaced the
\* list by a shorter or an empty one; so Enter with Some(i) returns the i-th
\* result and the read features[i] is never out of range.
C19_SelectionInRange ==
    /\ (view = "search" /\ "store" \notin held) =>
           (locations_state = None \/ InRange(locations_state, Len(locations)))
    /\ ret # "panic"

\* C20: while the search view stays open, requests resolve and the task is
\* scheduled, an edit that is not followed by another edit is followed by a
\* search whose text is the input as that edit left it, whatever the task
\* was doing (waiting, fetching, sleeping) when the edit was made.
C20_FinalInputSearched ==
    \A n \in 1..MaxEdits :
        (edits = n /\ unsearched) ~> (edits # n \/ (~unsearched /\ query = input))

\* after a cycle has ended, a search of the input as the last of MaxEdits
\* edits left it is in flight; fewer searches than edits were sent
C20_Witness ==
    /\ view = "search" /\ taskPc = "fetching" /\ query = input
    /\ ~unsearched /\ edits = MaxEdits /\ searches < edits /\ lastEnd >= 0

\* the task waits for what only the loop provides: the notify_one of an edit
TaskWaitsForLoop == taskPc = "notified" /\ waiter = "waiting" /\ ~permit
\* the loop is at a position whose next step may ask for a lock the task holds
LoopWaitsForTask == held # {} /\ mainPc \in {"draw", "poll", "final"}

\* C21: the loop and the task never deadlock on the locks: in no reachable
\* state does the task hold a guard while it waits for the loop (or is
\* suspended at all), so a lock the loop waits for is always released and
\* the task's own acquisition after a resolved request always goes through.
C21_NoLockDeadlock ==
    /\ [](held # {} => (~TaskWaitsForLoop /\ taskPc = "writing"))
    /\ LoopWaitsForTask ~> (held = {})
    /\ (taskPc = "resolved") ~> (taskPc # "resolved")

\* the loop is about to read the list for a frame while the task, woken by
\* an edit, holds the write guard; abort() has not been called
C21_Witness ==
    /\ view = "search" /\ mainPc = "draw" /\ key = "char"
    /\ taskPc = "writing" /\ held = {"store"} /\ ~aborted

====
